---------------------------- MODULE Spec2Model ----------------------------
(***************************************************************************)
(* bitcoind-exporter: the four prometheus collectors of pkg/bitcoind, the  *)
(* registry gather that serves one scrape, and the process lifecycle of    *)
(* main.go (startup order, serve loop, signal-driven shutdown).            *)
(*                                                                         *)
(* Numbers: float64 and int64 fields are carried as integers; values that  *)
(* the daemon reports as fractions are scaled to integers (fixed point).   *)
(* Go slices are 0-based: At(s, i) reads s[i].                             *)
(***************************************************************************)
EXTENDS Integers, Sequences, FiniteSets, Bags, TLC

VARIABLES
    runs,        \* a collector, the replies it is given in every scrape, what it sent in each
    described,   \* per collector, the descriptor sets its Describe calls returned so far
    daemonChain, \* the chain the daemon runs: the chain field of getblockchaininfo
    pc,          \* position of Main / Serve (main.go:128-188, 88-125)
    exitCode,    \* value handed to os.Exit, NoExit while running
    steps,       \* startup steps executed so far, in order
    ctxDone,     \* the context of signal.NotifyContext in Main is cancelled
    shutdownCtx, \* context handed to server.Shutdown
    listener,    \* net.Listen socket: "none", "open", "closed"
    serveGo,     \* goroutine running server.Serve and sending on errs
    fatal,       \* the error Main or Serve logged before returning 1, "" if none
    drain,       \* history: was a request in flight at the signal / at a Shutdown poll
    request,     \* the scrape request of the connection slot
    response,    \* what the HTTP client of the slot got
    colState,    \* per collector: "idle", "pending" (Collect invoked), "returned"
    out,         \* per collector: bag of metrics sent on the out channel
    errLog,      \* per collector: error lines logged during the scrape
    rpcCalls,    \* per collector: RPC methods issued during the scrape
    replies      \* per collector: the replies the daemon gave to those calls

vars == <<runs, described, daemonChain, pc, exitCode, steps, ctxDone, shutdownCtx, listener, serveGo, fatal, drain,
          request, response, colState, out, errLog, rpcCalls, replies>>

mainVars == <<runs, described, daemonChain, pc, exitCode, steps, ctxDone, shutdownCtx, listener, serveGo, fatal, drain>>
colVars == <<colState, out, errLog, rpcCalls, replies>>

At(s, i) == s[i + 1]

(***************************************************************************)
(* Bounds of the model.                                                    *)
(***************************************************************************)
\* longest peer list getpeerinfo returns
MaxPeers == 2

\* most calls of one collector's Describe
MaxDescribe == 2

\* most scrapes in which one collector is given the same replies
MaxRuns == 2

(***************************************************************************)
(* strconv.FormatInt as used for the peer_id label.                        *)
(***************************************************************************)
digits == <<"0", "1", "2", "3", "4", "5", "6", "7", "8", "9",
            "a", "b", "c", "d", "e", "f">>

RECURSIVE formatBits(_, _)
formatBits(u, base) ==
    IF u < base THEN At(digits, u)
    ELSE formatBits(u \div base, base) \o At(digits, u % base)

FormatIntDecimal(i, base) ==
    IF i < 0 THEN "-" \o formatBits(-i, 10) ELSE formatBits(i, 10)

FormatInt(i, base) ==
    IF i < 0 THEN "-" \o formatBits(-i, base) ELSE formatBits(i, base)

(***************************************************************************)
(* prometheus.NewDesc / prometheus.NewConstMetric.  A descriptor is its    *)
(* name and its variable label names; NewConstMetric fails (nil metric)    *)
(* when the number of label values differs from the number of names.       *)
(***************************************************************************)
NewDesc(name, labels) == [name |-> name, labels |-> labels]

NilMetric == [desc |-> NewDesc("<nil>", <<>>), kind |-> "nil", value |-> 0, labels |-> <<>>]

NewConstMetric(desc, kind, value, labelValues) ==
    IF Len(labelValues) = Len(desc.labels)
    THEN [desc |-> desc, kind |-> kind, value |-> value, labels |-> labelValues]
    ELSE NilMetric

\* the bag of the metrics sent on the out channel, given in the order sent: the
\* registry reads the channel into metric families and does not depend on order
Sent(ms) ==
    [m \in {ms[i] : i \in 1..Len(ms)} |-> Cardinality({i \in 1..Len(ms) : ms[i] = m})]

(***************************************************************************)
(* RPC replies.  A typed call (GetBlockChainInfo) yields a result or an    *)
(* error; a raw call (SendCmd + ReceiveFuture) yields bytes or an error,   *)
(* and json.Unmarshal of the bytes yields the value or a decode error.     *)
(***************************************************************************)
Chains == {"main", "test"}

BlockChainInfo(chain, ibd, pruned) ==
    [Chain |-> chain,
     Blocks |-> IF ibd THEN 799000 ELSE 800000,
     Headers |-> 800001,
     Difficulty |-> 52,
     MedianTime |-> 1700000000,
     VerificationProgress |-> IF ibd THEN 9987 ELSE 9999,
     InitialBlockDownload |-> ibd,
     SizeOnDisk |-> 600000,
     Pruned |-> pruned,
     PruneHeight |-> IF pruned THEN 790000 ELSE 0]

\* what getblockchaininfo may report of a daemon on chain c
BlockChainInfos(c) == {BlockChainInfo(c, i, p) : i \in BOOLEAN, p \in BOOLEAN}

ZeroBlockChainInfo ==
    [Chain |-> "", Blocks |-> 0, Headers |-> 0, Difficulty |-> 0, MedianTime |-> 0,
     VerificationProgress |-> 0, InitialBlockDownload |-> FALSE, SizeOnDisk |-> 0,
     Pruned |-> FALSE, PruneHeight |-> 0]

MempoolInfo(rbf) ==
    [Loaded |-> TRUE, FullRBF |-> rbf, Size |-> 1200, Bytes |-> 450000,
     Usage |-> 2100000, TotalFee |-> 31, MaxBytes |-> 300000000, MinFee |-> 1000,
     MinRelayTXFee |-> 1001, IncrementalRelayFee |-> 1002, UnbroadcastCount |-> 3]

MempoolInfos == {MempoolInfo(r) : r \in BOOLEAN}

Peer(id, sent, recv) ==
    [ID |-> id, Addr |-> "1.2.3.4:8333", SubVer |-> "/Satoshi:24.0/", Network |-> "ipv4",
     LastSend |-> 1700000100 + id, LastRecv |-> 1700000200 + id,
     LastTransaction |-> 1700000300 + id, LastBlock |-> 1700000400 + id,
     BytesSent |-> 5000 + id, BytesRecv |-> 6000 + id, TimeOffset |-> -2,
     PingTime |-> 45, PingMin |-> 40, StartingHeight |-> 799990,
     PreSyncedHeaders |-> -1, SyncedHeaders |-> 800001, SyncedBlocks |-> 800000,
     AddrProcessed |-> 1000 + id, AddrRateLimited |-> id,
     BytesSentPerMessage |-> sent, BytesRecvPerMessage |-> recv]

\* peers the daemon may report, in ascending id order
PeerPool ==
    << Peer(7, [inv |-> 1000], <<>>),
       Peer(10, <<>>, <<>>),
       Peer(26, [inv |-> 2000, ping |-> 32], [pong |-> 64]) >>

PeerLists ==
    {<<>>} \cup
    UNION { { [k \in 1..n |-> PeerPool[f[k]]] :
              f \in { g \in [1..n -> 1..Len(PeerPool)] :
                        \A a, b \in 1..n : a < b => g[a] < g[b] } } :
            n \in 1..MaxPeers }

IndexNames == {"txindex", "coinstatsindex"}

IndexEntry(synced) ==
    [Synced |-> synced, BestBlockHeight |-> IF synced THEN 800000 ELSE 750000]

IndexInfos ==
    UNION { [S -> {IndexEntry(s) : s \in BOOLEAN}] : S \in SUBSET IndexNames }

Result(v) == [err |-> FALSE, val |-> v]
Failure(zero) == [err |-> TRUE, val |-> zero]

Bytes(v) == [err |-> FALSE, wellformed |-> TRUE, json |-> v]
Garbage(zero) == [err |-> FALSE, wellformed |-> FALSE, json |-> zero]
NoBytes(zero) == [err |-> TRUE, wellformed |-> FALSE, json |-> zero]

\* json.Unmarshal(data, &info)
Unmarshal(data) == [err |-> ~data.wellformed, val |-> data.json]

NoReply == NoBytes(<<>>)

GetBlockChainInfoReplies(c) ==
    {Failure(ZeroBlockChainInfo)} \cup {Result(i) : i \in BlockChainInfos(c)}

\* the same for a collector that reads nothing but the chain name of the result
ChainLabelReplies(c) ==
    {Failure(ZeroBlockChainInfo), Result(BlockChainInfo(c, FALSE, FALSE))}

GetMempoolInfoReplies ==
    {NoBytes(MempoolInfo(FALSE)), Garbage(MempoolInfo(FALSE))}
        \cup {Bytes(i) : i \in MempoolInfos}

GetPeerInfoReplies ==
    {NoBytes(<<>>), Garbage(<<>>)} \cup {Bytes(l) : l \in PeerLists}

GetIndexInfoReplies ==
    {NoBytes(<<>>), Garbage(<<>>)} \cup {Bytes(m) : m \in IndexInfos}

(***************************************************************************)
(* pkg/bitcoind/blockchain.go: the collector Main registers through        *)
(* NewBlockchainCollector.                                                 *)
(***************************************************************************)
BlockchainDescriptors ==
    << NewDesc("bitcoind_blockchain_blocks", <<"chain">>),
       NewDesc("bitcoind_blockchain_headers", <<"chain">>),
       NewDesc("bitcoind_blockchain_difficulty", <<"chain">>),
       NewDesc("bitcoind_blockchain_median_time", <<"chain">>),
       NewDesc("bitcoind_blockchain_verification_progress", <<"chain">>),
       NewDesc("bitcoind_initial_block_download", <<"chain">>),
       NewDesc("bitcoind_blockchain_size_on_disk", <<"chain">>),
       NewDesc("bitcoind_blockchain_prune_height", <<"chain">>) >>

\* the metrics sent after a successful getblockchaininfo, in order (blockchain.go:47-73)
BlockchainMetrics(info) ==
    <<
        NewConstMetric(At(BlockchainDescriptors, 0), "counter", info.Blocks, <<info.Chain>>),
        NewConstMetric(At(BlockchainDescriptors, 1), "counter", info.Headers, <<info.Chain>>),
        NewConstMetric(At(BlockchainDescriptors, 2), "gauge", info.Difficulty, <<info.Chain>>),
        NewConstMetric(At(BlockchainDescriptors, 3), "gauge", info.MedianTime, <<info.Chain>>),
        NewConstMetric(At(BlockchainDescriptors, 4), "gauge", info.VerificationProgress, <<info.Chain>>),
        IF info.InitialBlockDownload
        THEN NewConstMetric(At(BlockchainDescriptors, 5), "untyped", 1, <<info.Chain>>)
        ELSE NewConstMetric(At(BlockchainDescriptors, 5), "untyped", 0, <<info.Chain>>),
        NewConstMetric(At(BlockchainDescriptors, 6), "gauge", info.SizeOnDisk, <<info.Chain>>),
        NewConstMetric(At(BlockchainDescriptors, 7), "gauge", info.PruneHeight, <<info.Chain>>)
    >>

\* what a Collect has done by the time it returns
Returned(metrics, log, calls) == [out |-> metrics, log |-> log, calls |-> calls]

BlockchainCollect(r1, r2) ==
    IF r1.err
    THEN Returned(EmptyBag, <<"RPC call getblockchaininfo failed">>,
                  <<"getblockchaininfo">>)
    ELSE Returned(Sent(BlockchainMetrics(r1.val)), <<>>, <<"getblockchaininfo">>)

(***************************************************************************)
(* pkg/bitcoind/blockchain_collector.go:1-120: the earlier collector of    *)
(* the same name.  It has no constructor and Main never registers it; it   *)
(* skips a metric whose construction fails instead of sending nil.         *)
(***************************************************************************)
descriptors ==
    [n \in {"bitcoind:blockchain:height", "bitcoind:blockchain:headers",
            "bitcoind:blockchain:difficulty", "bitcoind:blockchain:median_time",
            "bitcoind:blockchain:verification_progress",
            "bitcoind:blockchain:initializing", "bitcoind:blockchain:size_on_disk",
            "bitcoind:blockchain:pruned", "bitcoind:blockchain:prune_height"}
        |-> NewDesc(n, <<"chain">>)]

bcSend(m) == IF m = NilMetric THEN <<>> ELSE <<m>>

bcCollect(r1) ==
    IF r1.err
    THEN Returned(EmptyBag, <<"Unable to retreive blockchain info">>,
                  <<"getblockchaininfo">>)
    ELSE LET info == r1.val
             initializing == IF info.InitialBlockDownload THEN 1 ELSE 0
             pruned == IF info.Pruned THEN 1 ELSE 0
             ms == <<
                NewConstMetric(descriptors["bitcoind:blockchain:height"], "counter", info.Blocks, <<info.Chain>>),
                NewConstMetric(descriptors["bitcoind:blockchain:headers"], "gauge", info.Headers, <<info.Chain>>),
                NewConstMetric(descriptors["bitcoind:blockchain:difficulty"], "gauge", info.Difficulty, <<info.Chain>>),
                NewConstMetric(descriptors["bitcoind:blockchain:median_time"], "gauge", info.MedianTime, <<info.Chain>>),
                NewConstMetric(descriptors["bitcoind:blockchain:verification_progress"], "gauge", info.VerificationProgress, <<info.Chain>>),
                NewConstMetric(descriptors["bitcoind:blockchain:initializing"], "untyped", initializing, <<info.Chain>>),
                NewConstMetric(descriptors["bitcoind:blockchain:size_on_disk"], "gauge", info.SizeOnDisk, <<info.Chain>>),
                NewConstMetric(descriptors["bitcoind:blockchain:pruned"], "untyped", pruned, <<info.Chain>>),
                NewConstMetric(descriptors["bitcoind:blockchain:prune_height"], "gauge", info.PruneHeight, <<info.Chain>>) >>
             sent == [k \in 1..Len(ms) |-> bcSend(ms[k])]
             errs == {k \in 1..Len(ms) : ms[k] = NilMetric}
         IN  Returned(Sent(sent[1] \o sent[2] \o sent[3] \o sent[4] \o sent[5] \o
                               sent[6] \o sent[7] \o sent[8] \o sent[9]),
                      IF errs # {} THEN <<"Unable to build one or more blockchain metrics">>
                      ELSE <<>>,
                      <<"getblockchaininfo">>)

(***************************************************************************)
(* IndexCollector (blockchain_collector.go:135-210).                       *)
(***************************************************************************)
IndexDescriptors ==
    << NewDesc("bitcoind_index_synced", <<"chain", "index">>),
       NewDesc("bitcoind_index_best_block_height", <<"chain", "index">>) >>

\* the loop body over one entry of the decoded map (blockchain_collector.go:198-209)
IndexEntryMetrics(chain, name, props) ==
    << NewConstMetric(At(IndexDescriptors, 0), "counter", props.BestBlockHeight, <<chain, name>>),
       IF props.Synced
       THEN NewConstMetric(At(IndexDescriptors, 1), "untyped", 1, <<chain, name>>)
       ELSE NewConstMetric(At(IndexDescriptors, 1), "untyped", 1, <<chain, name>>) >>

\* mutant: the loop over the decoded map stops after its first entry
IndexMetricsFirstEntry(chain, info, names) ==
    IF names = {} THEN <<>>
    ELSE LET name == CHOOSE n \in names : TRUE
         IN  IndexEntryMetrics(chain, name, info[name])

RECURSIVE IndexMetrics(_, _, _)
IndexMetrics(chain, info, names) ==
    IF names = {} THEN <<>>
    ELSE LET name == CHOOSE n \in names : TRUE
         IN  IndexEntryMetrics(chain, name, info[name])
                 \o IndexMetrics(chain, info, names \ {name})

\* mutant: the getblockchaininfo error is logged but Collect carries on
IndexCollectNoReturn(r1, r2) ==
    IF r2.err
    THEN Returned(EmptyBag, <<"RPC call getindexinfo failed">>,
                  <<"getblockchaininfo", "getindexinfo">>)
    ELSE IF Unmarshal(r2).err
    THEN Returned(EmptyBag, <<"Failed to decode getindexinfo response">>,
                  <<"getblockchaininfo", "getindexinfo">>)
    ELSE Returned(Sent(IndexMetrics(r1.val.Chain, Unmarshal(r2).val, DOMAIN Unmarshal(r2).val)),
                  IF r1.err THEN <<"RPC call getblockchaininfo failed">> ELSE <<>>,
                  <<"getblockchaininfo", "getindexinfo">>)

IndexCollect(r1, r2) ==
    IF r1.err
    THEN Returned(EmptyBag, <<"RPC call getblockchaininfo failed">>,
                  <<"getblockchaininfo">>)
    ELSE IF r2.err
    THEN Returned(EmptyBag, <<"RPC call getindexinfo failed">>,
                  <<"getblockchaininfo", "getindexinfo">>)
    ELSE IF Unmarshal(r2).err
    THEN Returned(EmptyBag, <<"Failed to decode getindexinfo response">>,
                  <<"getblockchaininfo", "getindexinfo">>)
    ELSE Returned(Sent(IndexMetrics(r1.val.Chain, Unmarshal(r2).val, DOMAIN Unmarshal(r2).val)),
                  <<>>, <<"getblockchaininfo", "getindexinfo">>)

(***************************************************************************)
(* MempoolCollector (blockchain_collector.go:223-326).                     *)
(***************************************************************************)
MempoolDescriptors ==
    << NewDesc("bitcoind_mempool_size", <<"chain">>),
       NewDesc("bitcoind_mempool_bytes", <<"chain">>),
       NewDesc("bitcoind_mempool_usage", <<"chain">>),
       NewDesc("bitcoind_mempool_total_fee", <<"chain">>),
       NewDesc("bitcoind_mempool_max_bytes", <<"chain">>),
       NewDesc("bitcoind_mempool_min_fee", <<"chain">>),
       NewDesc("bitcoind_mempool_min_relay_tx_fee", <<"chain">>),
       NewDesc("bitcoind_mempool_incremental_relay_fee", <<"chain">>),
       NewDesc("bitcoind_mempool_unbroadcast_count", <<"chain">>),
       NewDesc("bitcoind_mempool_fullrbf", <<"chain">>) >>

\* the metrics sent after a successful decode (blockchain_collector.go:293-325)
MempoolMetrics(chain, info) ==
    <<
        NewConstMetric(At(MempoolDescriptors, 0), "gauge", info.Size, <<chain>>),
        NewConstMetric(At(MempoolDescriptors, 1), "gauge", info.Bytes, <<chain>>),
        NewConstMetric(At(MempoolDescriptors, 2), "gauge", info.Usage, <<chain>>),
        NewConstMetric(At(MempoolDescriptors, 3), "gauge", info.TotalFee, <<chain>>),
        NewConstMetric(At(MempoolDescriptors, 4), "gauge", info.MaxBytes, <<chain>>),
        NewConstMetric(At(MempoolDescriptors, 5), "gauge", info.MinFee, <<chain>>),
        NewConstMetric(At(MempoolDescriptors, 6), "gauge", info.MinRelayTXFee, <<chain>>),
        NewConstMetric(At(MempoolDescriptors, 7), "gauge", info.IncrementalRelayFee, <<chain>>),
        NewConstMetric(At(MempoolDescriptors, 8), "gauge", info.UnbroadcastCount, <<chain>>),
        IF info.FullRBF
        THEN NewConstMetric(At(MempoolDescriptors, 9), "untyped", 1, <<chain>>)
        ELSE NewConstMetric(At(MempoolDescriptors, 9), "untyped", 0, <<chain>>)
    >>

\* mutant: getmempoolinfo is sent before the result of getblockchaininfo is looked at
MempoolCollectEager(r1, r2) ==
    IF r1.err
    THEN Returned(EmptyBag, <<"RPC call getblockchaininfo failed">>,
                  <<"getblockchaininfo", "getmempoolinfo">>)
    ELSE IF r2.err
    THEN Returned(EmptyBag, <<"RPC call getmempoolinfo failed">>,
                  <<"getblockchaininfo", "getmempoolinfo">>)
    ELSE IF Unmarshal(r2).err
    THEN Returned(EmptyBag, <<"Failed to decode getmempoolinfo response">>,
                  <<"getblockchaininfo", "getmempoolinfo">>)
    ELSE Returned(Sent(MempoolMetrics(r1.val.Chain, Unmarshal(r2).val)),
                  <<>>, <<"getblockchaininfo", "getmempoolinfo">>)

MempoolCollect(r1, r2) ==
    IF r1.err
    THEN Returned(EmptyBag, <<"RPC call getblockchaininfo failed">>,
                  <<"getblockchaininfo">>)
    ELSE IF r2.err
    THEN Returned(EmptyBag, <<"RPC call getmempoolinfo failed">>,
                  <<"getblockchaininfo", "getmempoolinfo">>)
    ELSE IF Unmarshal(r2).err
    THEN Returned(EmptyBag, <<"Failed to decode getmempoolinfo response">>,
                  <<"getblockchaininfo", "getmempoolinfo">>)
    ELSE Returned(Sent(MempoolMetrics(r1.val.Chain, Unmarshal(r2).val)),
                  <<>>, <<"getblockchaininfo", "getmempoolinfo">>)

(***************************************************************************)
(* PeersCollector (blockchain_collector.go:340-483).                       *)
(***************************************************************************)
peerLabels == <<"chain", "peer_id", "peer_addr", "peer_transport", "peer_version">>
peerMsgLabels == peerLabels \o <<"msg_type">>

PeersDescriptors ==
    << NewDesc("bitcoind_peer_last_send", peerLabels),
       NewDesc("bitcoind_peer_last_recv", peerLabels),
       NewDesc("bitcoind_peer_last_transaction", peerLabels),
       NewDesc("bitcoind_peer_last_block", peerLabels),
       NewDesc("bitcoind_peer_bytes_sent", peerLabels),
       NewDesc("bitcoind_peer_bytes_recv", peerLabels),
       NewDesc("bitcoind_peer_time_offset", peerLabels),
       NewDesc("bitcoind_peer_ping_time", peerLabels),
       NewDesc("bitcoind_peer_ping_min", peerLabels),
       NewDesc("bitcoind_peer_starting_height", peerLabels),
       NewDesc("bitcoind_peer_presynced_headers", peerLabels),
       NewDesc("bitcoind_peer_synced_headers", peerLabels),
       NewDesc("bitcoind_peer_synced_blocks", peerLabels),
       NewDesc("bitcoind_peer_addr_processed", peerLabels),
       NewDesc("bitcoind_peer_addr_rate_limited", peerLabels),
       NewDesc("bitcoind_peer_bytes_sent_per_msg", peerMsgLabels),
       NewDesc("bitcoind_peer_bytes_recv_per_msg", peerMsgLabels) >>

\* mutant: the per-message metric is built without its msg_type label value
RECURSIVE PerMessageMetricsNoMsg(_, _, _, _)
PerMessageMetricsNoMsg(desc, lvs, counts, msgs) ==
    IF msgs = {} THEN <<>>
    ELSE LET msg == CHOOSE m \in msgs : TRUE
         IN  <<NewConstMetric(desc, "counter", counts[msg], lvs)>>
                 \o PerMessageMetricsNoMsg(desc, lvs, counts, msgs \ {msg})

\* one range loop over a per-message map (blockchain_collector.go:473-481)
RECURSIVE PerMessageMetrics(_, _, _, _)
PerMessageMetrics(desc, lvs, counts, msgs) ==
    IF msgs = {} THEN <<>>
    ELSE LET msg == CHOOSE m \in msgs : TRUE
         IN  <<NewConstMetric(desc, "counter", counts[msg], lvs \o <<msg>>)>>
                 \o PerMessageMetrics(desc, lvs, counts, msgs \ {msg})

\* the loop body over one peer (blockchain_collector.go:426-481)
PeerMetrics(chain, peer) ==
    LET peerID == FormatInt(peer.ID, 16)
        lvs == <<chain, peerID, peer.Addr, peer.Network, peer.SubVer>>
    IN  <<
            NewConstMetric(At(PeersDescriptors, 0), "gauge", peer.LastSend, lvs),
            NewConstMetric(At(PeersDescriptors, 1), "gauge", peer.LastRecv, lvs),
            NewConstMetric(At(PeersDescriptors, 2), "gauge", peer.LastTransaction, lvs),
            NewConstMetric(At(PeersDescriptors, 3), "gauge", peer.LastBlock, lvs),
            NewConstMetric(At(PeersDescriptors, 4), "gauge", peer.BytesSent, lvs),
            NewConstMetric(At(PeersDescriptors, 5), "gauge", peer.BytesRecv, lvs),
            NewConstMetric(At(PeersDescriptors, 6), "gauge", peer.TimeOffset, lvs),
            NewConstMetric(At(PeersDescriptors, 7), "gauge", peer.PingTime, lvs),
            NewConstMetric(At(PeersDescriptors, 8), "gauge", peer.PingMin, lvs),
            NewConstMetric(At(PeersDescriptors, 9), "gauge", peer.StartingHeight, lvs),
            NewConstMetric(At(PeersDescriptors, 10), "counter", peer.PreSyncedHeaders, lvs),
            NewConstMetric(At(PeersDescriptors, 11), "counter", peer.SyncedHeaders, lvs),
            NewConstMetric(At(PeersDescriptors, 12), "counter", peer.SyncedBlocks, lvs),
            NewConstMetric(At(PeersDescriptors, 13), "counter", peer.AddrProcessed, lvs),
            NewConstMetric(At(PeersDescriptors, 14), "counter", peer.AddrRateLimited, lvs)
        >>
        \o PerMessageMetrics(At(PeersDescriptors, 15), lvs, peer.BytesSentPerMessage,
                              DOMAIN peer.BytesSentPerMessage)
        \o PerMessageMetrics(At(PeersDescriptors, 16), lvs, peer.BytesRecvPerMessage,
                              DOMAIN peer.BytesRecvPerMessage)

RECURSIVE PeersMetrics(_, _)
PeersMetrics(chain, info) ==
    IF info = <<>> THEN <<>>
    ELSE PeerMetrics(chain, Head(info)) \o PeersMetrics(chain, Tail(info))

\* mutant: an empty peer list is logged as an error
PeersCollectEmptyIsError(r1, r2) ==
    IF r1.err
    THEN Returned(EmptyBag, <<"RPC call getblockchaininfo failed">>,
                  <<"getblockchaininfo">>)
    ELSE IF r2.err
    THEN Returned(EmptyBag, <<"RPC call getpeerinfo failed">>,
                  <<"getblockchaininfo", "getpeerinfo">>)
    ELSE IF Unmarshal(r2).err \/ Unmarshal(r2).val = <<>>
    THEN Returned(EmptyBag, <<"Failed to decode getpeerinfo response">>,
                  <<"getblockchaininfo", "getpeerinfo">>)
    ELSE Returned(Sent(PeersMetrics(r1.val.Chain, Unmarshal(r2).val)),
                  <<>>, <<"getblockchaininfo", "getpeerinfo">>)

PeersCollect(r1, r2) ==
    IF r1.err
    THEN Returned(EmptyBag, <<"RPC call getblockchaininfo failed">>,
                  <<"getblockchaininfo">>)
    ELSE IF r2.err
    THEN Returned(EmptyBag, <<"RPC call getpeerinfo failed">>,
                  <<"getblockchaininfo", "getpeerinfo">>)
    ELSE IF Unmarshal(r2).err
    THEN Returned(EmptyBag, <<"Failed to decode getpeerinfo response">>,
                  <<"getblockchaininfo", "getpeerinfo">>)
    ELSE Returned(Sent(PeersMetrics(r1.val.Chain, Unmarshal(r2).val)),
                  <<>>, <<"getblockchaininfo", "getpeerinfo">>)

(***************************************************************************)
(* One scrape: promhttp.HandlerFor(registry, opts) (main.go:177-179) runs  *)
(* registry.Gather, which invokes Collect of every registered collector,   *)
(* each in a goroutine of its own, and merges what they sent.              *)
(***************************************************************************)
Collectors == {"blockchain", "mempool", "peers", "index"}

\* registration order in Main (main.go:147-173)
RegisterOrder == <<"blockchain", "mempool", "peers", "index">>

CollectOf(c, r1, r2) ==
    CASE c = "blockchain" -> BlockchainCollect(r1, r2)
      [] c = "mempool"    -> MempoolCollect(r1, r2)
      [] c = "peers"      -> PeersCollect(r1, r2)
      [] c = "index"      -> IndexCollect(r1, r2)

\* replies the daemon may give to a collector's first and second call
FirstReplies(c) ==
    IF c = "blockchain" THEN GetBlockChainInfoReplies(daemonChain)
    ELSE ChainLabelReplies(daemonChain)

SecondReplies(c) ==
    CASE c = "blockchain" -> {NoReply}
      [] c = "mempool"    -> GetMempoolInfoReplies
      [] c = "peers"      -> GetPeerInfoReplies
      [] c = "index"      -> GetIndexInfoReplies

\* the narrow reply sets used while the process lifecycle is explored
FirstRepliesMain(c) == ChainLabelReplies(daemonChain)

SecondRepliesMain(c) ==
    CASE c = "blockchain" -> {NoReply}
      [] c = "mempool"    -> {Bytes(MempoolInfo(FALSE))}
      [] c = "peers"      -> {Bytes(<<PeerPool[1]>>)}
      [] c = "index"      -> {Bytes([txindex |-> IndexEntry(TRUE)])}

\* everything in pkg/bitcoind with a Describe method: the four collectors Main
\* registers and the earlier BlockchainCollector of blockchain_collector.go:10-18
Describers == Collectors \cup {"blockchain.legacy"}

\* prometheus.DescribeByCollect(bc, ch) (blockchain_collector.go:16-18): Collect
\* is run and the descriptors of the metrics it sent are what Describe returns
bcDescribe(r1) == {m.desc : m \in BagToSet(bcCollect(r1).out)}

\* the descriptors Describe of c sends when getblockchaininfo would be answered
\* with r1 (blockchain.go:33-37, blockchain_collector.go:153-157, 249-253, 373-377)
DescribeOf(c, r1) ==
    CASE c = "blockchain" -> {BlockchainDescriptors[i] : i \in 1..Len(BlockchainDescriptors)}
      [] c = "mempool"    -> {MempoolDescriptors[i] : i \in 1..Len(MempoolDescriptors)}
      [] c = "peers"      -> {PeersDescriptors[i] : i \in 1..Len(PeersDescriptors)}
      [] c = "index"      -> {IndexDescriptors[i] : i \in 1..Len(IndexDescriptors)}
      [] c = "blockchain.legacy" -> bcDescribe(r1)

\* a call of c's Describe, at any time after construction
Describe(c) ==
    /\ Len(described[c]) < MaxDescribe
    /\ \E r1 \in GetBlockChainInfoReplies(daemonChain) :
          described' = [described EXCEPT ![c] = Append(@, DescribeOf(c, r1))]
    /\ UNCHANGED <<runs, daemonChain, pc, exitCode, steps, ctxDone, shutdownCtx, listener, serveGo,
                   fatal, drain, request, response, colVars>>

NoRuns == [c |-> "", replies |-> <<>>, results |-> <<>>]

Running == pc \notin {"exited", "killed"}

IdleCollectors ==
    /\ colState' = [c \in Collectors |-> "idle"]
    /\ out' = [c \in Collectors |-> EmptyBag]
    /\ errLog' = [c \in Collectors |-> <<>>]
    /\ rpcCalls' = [c \in Collectors |-> <<>>]
    /\ replies' = [c \in Collectors |-> <<>>]

\* server.Serve accepts a connection and the handler starts registry.Gather
Accept ==
    /\ Running
    /\ listener = "open"
    /\ serveGo = "running"
    /\ request = "none"
    /\ request' = "gathering"
    /\ response' = [status |-> 0, body |-> EmptyBag]
    /\ colState' = [c \in Collectors |-> "pending"]
    /\ out' = [c \in Collectors |-> EmptyBag]
    /\ errLog' = [c \in Collectors |-> <<>>]
    /\ rpcCalls' = [c \in Collectors |-> <<>>]
    /\ replies' = [c \in Collectors |-> <<>>]
    /\ UNCHANGED mainVars

\* mutant: the collector keeps what it sent in the scrape before and sends it again
CollectWithCarry(c, r1, r2) ==
    /\ Running
    /\ request = "gathering"
    /\ colState[c] = "pending"
    /\ LET ret == CollectOf(c, r1, r2)
           kept == IF c = runs.c /\ runs.results # <<>>
                   THEN runs.results[Len(runs.results)].out ELSE EmptyBag
       IN  /\ out' = [out EXCEPT ![c] = ret.out (+) kept]
           /\ errLog' = [errLog EXCEPT ![c] = ret.log]
           /\ rpcCalls' = [rpcCalls EXCEPT ![c] = ret.calls]
           /\ replies' = [replies EXCEPT ![c] = SubSeq(<<r1, r2>>, 1, Len(ret.calls))]
    /\ colState' = [colState EXCEPT ![c] = "returned"]
    /\ UNCHANGED <<mainVars, request, response>>

\* mutant: a Collect that fails aborts the gather, dropping what the others sent
CollectWithAbort(c, r1, r2) ==
    /\ Running
    /\ request = "gathering"
    /\ colState[c] = "pending"
    /\ LET ret == CollectOf(c, r1, r2)
       IN  /\ out' = IF ret.log # <<>> THEN [d \in Collectors |-> EmptyBag]
                     ELSE [out EXCEPT ![c] = ret.out]
           /\ errLog' = [errLog EXCEPT ![c] = ret.log]
           /\ rpcCalls' = [rpcCalls EXCEPT ![c] = ret.calls]
           /\ replies' = [replies EXCEPT ![c] = SubSeq(<<r1, r2>>, 1, Len(ret.calls))]
    /\ colState' = [colState EXCEPT ![c] = "returned"]
    /\ UNCHANGED <<mainVars, request, response>>

\* Collect of collector c runs to its return; the daemon answers its first call
\* with r1 and its second call, if it makes one, with r2
CollectWith(c, r1, r2) ==
    /\ Running
    /\ request = "gathering"
    /\ colState[c] = "pending"
    /\ LET ret == CollectOf(c, r1, r2)
       IN  /\ out' = [out EXCEPT ![c] = ret.out]
           /\ errLog' = [errLog EXCEPT ![c] = ret.log]
           /\ rpcCalls' = [rpcCalls EXCEPT ![c] = ret.calls]
           /\ replies' = [replies EXCEPT ![c] = SubSeq(<<r1, r2>>, 1, Len(ret.calls))]
    /\ colState' = [colState EXCEPT ![c] = "returned"]
    /\ UNCHANGED <<mainVars, request, response>>

Collect(c) == \E r1 \in FirstReplies(c), r2 \in SecondReplies(c) : CollectWith(c, r1, r2)

CollectMain(c) ==
    \E r1 \in FirstRepliesMain(c), r2 \in SecondRepliesMain(c) : CollectWith(c, r1, r2)

\* what Gather merges: everything the collectors sent
Gathered == out["blockchain"] (+) out["mempool"] (+) out["peers"] (+) out["index"]

\* Gather rejects a metric collected twice with the same name and label values
GatherError(ms) ==
    \E m \in BagToSet(ms) :
        \/ CopiesIn(m, ms) > 1
        \/ \E n \in BagToSet(ms) :
              /\ n # m
              /\ n.desc.name = m.desc.name
              /\ n.labels = m.labels

\* every Collect has returned: the handler writes the response
\* mutant: promhttp answers 500 when a collector logged an error
RespondsErrorOnFailure ==
    /\ Running
    /\ request = "gathering"
    /\ \A c \in Collectors : colState[c] = "returned"
    /\ response' = IF \E c \in Collectors : errLog[c] # <<>>
                   THEN [status |-> 500, body |-> EmptyBag]
                   ELSE [status |-> 200, body |-> Gathered]
    /\ request' = "none"
    /\ IdleCollectors

Responds ==
    /\ Running
    /\ request = "gathering"
    /\ \A c \in Collectors : colState[c] = "returned"
    /\ response' = IF GatherError(Gathered)
                   THEN [status |-> 500, body |-> EmptyBag]
                   ELSE [status |-> 200, body |-> Gathered]
    /\ request' = "none"
    /\ IdleCollectors

Respond == Responds /\ UNCHANGED mainVars

\* scrape after scrape in which the daemon gives collector runs.c the same replies
AcceptTwice == Len(runs.results) < MaxRuns /\ Accept

CollectTwice(c) ==
    IF c = runs.c THEN CollectWith(c, runs.replies[1], runs.replies[2])
    ELSE CollectMain(c)

RespondTwice ==
    /\ Responds
    /\ runs' = [runs EXCEPT !.results =
                   Append(@, Returned(out[runs.c], errLog[runs.c], rpcCalls[runs.c]))]
    /\ UNCHANGED <<described, daemonChain, pc, exitCode, steps, ctxDone, shutdownCtx, listener,
                   serveGo, fatal, drain>>

(***************************************************************************)
(* Process lifecycle: Main, RPCClient and Serve of main.go.                *)
(***************************************************************************)
\* the startup order of Main when nothing fails
StartupOrder ==
    <<"logger", "rpc.connect", "rpc.ping", "notify",
      "register.blockchain", "register.mempool", "register.peers", "register.index",
      "handle", "listen", "serve">>

\* the process ends: a request still being served dies with it
Die ==
    /\ request' = IF request = "gathering" THEN "aborted" ELSE request
    /\ UNCHANGED <<response, colVars>>

\* the error why is logged, Main returns 1 and main calls os.Exit(1)
Fail(why) ==
    /\ pc' = "exited"
    /\ exitCode' = <<1>>
    /\ fatal' = why
    /\ Die

\* Main logs "Goodbye" and returns 0 (main.go:186-187, 190-192)
Goodbye ==
    /\ pc' = "exited"
    /\ exitCode' = <<0>>
    /\ fatal' = fatal
    /\ Die

Continue(next) ==
    /\ pc' = next
    /\ UNCHANGED <<exitCode, fatal, request, response, colVars>>

\* Logger() (main.go:62-73, 131-135)
Logger ==
    /\ pc = "Logger"
    /\ steps' = Append(steps, "logger")
    /\ \E ok \in BOOLEAN : IF ok THEN Continue("RPCClient") ELSE Fail("logger")
    /\ UNCHANGED <<runs, described, daemonChain, ctxDone, shutdownCtx, listener, serveGo, drain>>

\* mutant: the error of client.Ping is logged but Main carries on
RPCClientIgnorePing ==
    /\ pc = "RPCClient"
    /\ \E connected \in BOOLEAN, pong \in BOOLEAN :
          IF ~connected
          THEN steps' = Append(steps, "rpc.connect") /\ Fail("rpc.connect")
          ELSE /\ steps' = steps \o <<"rpc.connect", "rpc.ping">>
               /\ pc' = "NotifyContext"
               /\ fatal' = IF pong THEN fatal ELSE "rpc.ping"
               /\ UNCHANGED <<exitCode, request, response, colVars>>
    /\ UNCHANGED <<runs, described, daemonChain, ctxDone, shutdownCtx, listener, serveGo, drain>>

\* RPCClient() (main.go:76-85, 137-141): rpcclient.New, then client.Ping
RPCClient ==
    /\ pc = "RPCClient"
    /\ \E connected \in BOOLEAN, pong \in BOOLEAN :
          IF ~connected
          THEN steps' = Append(steps, "rpc.connect") /\ Fail("rpc.connect")
          ELSE /\ steps' = steps \o <<"rpc.connect", "rpc.ping">>
               /\ IF pong THEN Continue("NotifyContext") ELSE Fail("rpc.ping")
    /\ UNCHANGED <<runs, described, daemonChain, ctxDone, shutdownCtx, listener, serveGo, drain>>

\* signal.NotifyContext(context.Background(), os.Interrupt) (main.go:144)
NotifyContext ==
    /\ pc = "NotifyContext"
    /\ steps' = Append(steps, "notify")
    /\ Continue("Register")
    /\ UNCHANGED <<runs, described, daemonChain, ctxDone, shutdownCtx, listener, serveGo, drain>>

Registered == {c \in Collectors : \E i \in 1..Len(steps) : steps[i] = "register." \o c}

\* registry.Register of the next collector (main.go:147-173)
Register ==
    /\ pc = "Register"
    /\ LET c == RegisterOrder[Cardinality(Registered) + 1]
       IN  /\ steps' = Append(steps, "register." \o c)
           /\ \E r1 \in GetBlockChainInfoReplies(daemonChain) :
                 described' = [described EXCEPT ![c] = Append(@, DescribeOf(c, r1))]
           /\ \E ok \in BOOLEAN :
                 IF ~ok THEN Fail("register." \o c)
                 ELSE IF Cardinality(Registered) + 1 = Len(RegisterOrder)
                 THEN Continue("Handle")
                 ELSE Continue("Register")
    /\ UNCHANGED <<runs, daemonChain, ctxDone, shutdownCtx, listener, serveGo, drain>>

\* router.Handle(exportPathFlag, promhttp.HandlerFor(registry, opts)) (main.go:176-179)
Handle ==
    /\ pc = "Handle"
    /\ steps' = Append(steps, "handle")
    /\ Continue("Listen")
    /\ UNCHANGED <<runs, described, daemonChain, ctxDone, shutdownCtx, listener, serveGo, drain>>

\* net.Listen in Serve (main.go:91-96)
Listen ==
    /\ pc = "Listen"
    /\ steps' = Append(steps, "listen")
    /\ \E ok \in BOOLEAN :
          IF ok THEN listener' = "open" /\ Continue("Go")
          ELSE listener' = listener /\ Fail("listen")
    /\ UNCHANGED <<runs, described, daemonChain, ctxDone, shutdownCtx, serveGo, drain>>

\* go func() { errs <- server.Serve(listener) }() (main.go:98-103)
GoServe ==
    /\ pc = "Go"
    /\ steps' = Append(steps, "serve")
    /\ serveGo' = "spawned"
    /\ Continue("Select")
    /\ UNCHANGED <<runs, described, daemonChain, ctxDone, shutdownCtx, listener, drain>>

\* the goroutine enters server.Serve: it serves, or finds the server shut down,
\* closes the listener and has http.ErrServerClosed to send
ServeStart ==
    /\ Running
    /\ serveGo = "spawned"
    /\ IF shutdownCtx = "none"
       THEN serveGo' = "running" /\ listener' = listener
       ELSE serveGo' = "sendingClosed" /\ listener' = "closed"
    /\ UNCHANGED <<runs, described, daemonChain, pc, exitCode, steps, ctxDone, shutdownCtx, fatal, drain,
                   request, response, colVars>>

\* server.Serve returns an accept error; its deferred Close closes the listener
ServeFail ==
    /\ Running
    /\ serveGo = "running"
    /\ listener = "open"
    /\ serveGo' = "sendingAccept"
    /\ listener' = "closed"
    /\ UNCHANGED <<runs, described, daemonChain, pc, exitCode, steps, ctxDone, shutdownCtx, fatal, drain,
                   request, response, colVars>>

\* server.Serve returns http.ErrServerClosed after Shutdown closed the listener
ServeClosed ==
    /\ Running
    /\ serveGo = "running"
    /\ listener = "closed"
    /\ serveGo' = "sendingClosed"
    /\ UNCHANGED <<runs, described, daemonChain, pc, exitCode, steps, ctxDone, shutdownCtx, listener, fatal, drain,
                   request, response, colVars>>

\* an interrupt signal before signal.NotifyContext: the Go runtime ends the process
InterruptKill ==
    /\ pc \in {"Logger", "RPCClient", "NotifyContext"}
    /\ pc' = "killed"
    /\ Die
    /\ UNCHANGED <<runs, described, daemonChain, exitCode, steps, ctxDone, shutdownCtx, listener, serveGo, fatal, drain>>

\* an interrupt signal once a NotifyContext is installed: it cancels the context of
\* Main (main.go:144) or, once made, the shutdown context of Serve (main.go:110)
Interrupt ==
    /\ Running
    /\ pc \notin {"Logger", "RPCClient", "NotifyContext"}
    /\ IF shutdownCtx = "live"
       THEN shutdownCtx' = "interrupted" /\ UNCHANGED <<ctxDone, drain>>
       ELSE /\ shutdownCtx' = shutdownCtx
            /\ ctxDone' = TRUE
            /\ drain' = IF ctxDone THEN drain
                        ELSE [drain EXCEPT !.atSignal = (request = "gathering")]
    /\ UNCHANGED <<runs, described, daemonChain, pc, exitCode, steps, listener, serveGo, fatal, request, response, colVars>>

\* mutant: the shutdown context is made without a timeout
TimeoutNever ==
    /\ FALSE
    /\ UNCHANGED vars

\* shutdownTimeoutFlag elapses (main.go:111)
Timeout ==
    /\ Running
    /\ shutdownCtx = "live"
    /\ shutdownCtx' = "expired"
    /\ UNCHANGED <<runs, described, daemonChain, pc, exitCode, steps, ctxDone, listener, serveGo, fatal, drain,
                   request, response, colVars>>

\* mutant: Main logs the error Serve returned and returns 0
SelectErrGoodbye ==
    /\ pc = "Select"
    /\ serveGo \in {"sendingAccept", "sendingClosed"}
    /\ serveGo' = "done"
    /\ Goodbye
    /\ UNCHANGED <<runs, described, daemonChain, steps, ctxDone, shutdownCtx, listener, drain>>

\* select, case err = <-errs (main.go:119-121): Serve returns err, Main returns 1
SelectErr ==
    /\ pc = "Select"
    /\ serveGo \in {"sendingAccept", "sendingClosed"}
    /\ serveGo' = "done"
    /\ Fail("accept")
    /\ UNCHANGED <<runs, described, daemonChain, steps, ctxDone, shutdownCtx, listener, drain>>

\* mutant: the ctx.Done branch returns to the drain without server.Shutdown
\* closing the listener
SelectDoneNoClose ==
    /\ pc = "Select"
    /\ ctxDone
    /\ shutdownCtx' = "live"
    /\ listener' = listener
    /\ Continue("ShutdownPoll")
    /\ UNCHANGED <<runs, described, daemonChain, steps, ctxDone, serveGo, drain>>

\* select, case <-ctx.Done() (main.go:106-114): the shutdown context is made and
\* server.Shutdown closes the listeners that server.Serve has registered
SelectDone ==
    /\ pc = "Select"
    /\ ctxDone
    /\ shutdownCtx' = "live"
    /\ listener' = IF serveGo = "running" THEN "closed" ELSE listener
    /\ Continue("ShutdownPoll")
    /\ UNCHANGED <<runs, described, daemonChain, steps, ctxDone, serveGo, drain>>

\* mutant: server.Shutdown returns nil without waiting for active connections
ShutdownPollNoWait ==
    /\ pc = "ShutdownPoll"
    /\ Goodbye
    /\ UNCHANGED <<runs, described, daemonChain, steps, ctxDone, shutdownCtx, listener, serveGo, drain>>

\* server.Shutdown polls: with no connection active it returns nil, Serve returns
\* nil and Main returns 0 (main.go:114-118, 124, 181-187); else it waits
ShutdownPoll ==
    /\ pc = "ShutdownPoll"
    /\ IF request = "gathering"
       THEN Continue("ShutdownWait") /\ drain' = [drain EXCEPT !.waited = TRUE]
       ELSE Goodbye /\ drain' = drain
    /\ UNCHANGED <<runs, described, daemonChain, steps, ctxDone, shutdownCtx, listener, serveGo>>

\* server.Shutdown sees its context done: it returns ctx.Err(), Serve logs
\* "Shutdown error" and Main returns 1 (main.go:114-118, 181-184)
ShutdownCancelled ==
    /\ pc = "ShutdownWait"
    /\ shutdownCtx \in {"interrupted", "expired"}
    /\ Fail("shutdown")
    /\ UNCHANGED <<runs, described, daemonChain, steps, ctxDone, shutdownCtx, listener, serveGo, drain>>

\* server.Shutdown's poll timer fires
ShutdownTick ==
    /\ pc = "ShutdownWait"
    /\ Continue("ShutdownPoll")
    /\ UNCHANGED <<runs, described, daemonChain, steps, ctxDone, shutdownCtx, listener, serveGo, drain>>

(***************************************************************************)
(* Specifications.                                                         *)
(***************************************************************************)
NoResponse == [status |-> 0, body |-> EmptyBag]

InitCollectors ==
    /\ colState = [c \in Collectors |-> "idle"]
    /\ out = [c \in Collectors |-> EmptyBag]
    /\ errLog = [c \in Collectors |-> <<>>]
    /\ rpcCalls = [c \in Collectors |-> <<>>]
    /\ replies = [c \in Collectors |-> <<>>]

\* the process as main() starts
InitMain ==
    /\ runs = NoRuns
    /\ described = [c \in Describers |-> <<>>]
    /\ daemonChain \in Chains
    /\ pc = "Logger"
    /\ exitCode = <<>>
    /\ steps = <<>>
    /\ ctxDone = FALSE
    /\ shutdownCtx = "none"
    /\ listener = "none"
    /\ serveGo = "none"
    /\ fatal = ""
    /\ drain = [atSignal |-> FALSE, waited |-> FALSE]
    /\ request = "none"
    /\ response = NoResponse
    /\ InitCollectors

\* the exporter up and serving: startup done, no signal yet
InitServing ==
    /\ described = [c \in Describers |->
                        IF c \in Collectors THEN <<DescribeOf(c, NoReply)>> ELSE <<>>]
    /\ daemonChain \in Chains
    /\ pc = "Select"
    /\ exitCode = <<>>
    /\ steps = StartupOrder
    /\ ctxDone = FALSE
    /\ shutdownCtx = "none"
    /\ listener = "open"
    /\ serveGo = "running"
    /\ fatal = ""
    /\ drain = [atSignal |-> FALSE, waited |-> FALSE]
    /\ request = "none"
    /\ response = NoResponse
    /\ InitCollectors

Init == runs = NoRuns /\ InitServing

\* a collector of a serving exporter and the replies its Collect is run against
InitTwice ==
    /\ InitServing
    /\ \E c \in Collectors :
          \E r1 \in FirstReplies(c), r2 \in SecondReplies(c) :
              runs = [c |-> c, replies |-> <<r1, r2>>, results |-> <<>>]

\* scrapes against every reply of the daemon
Next ==
    \/ Accept
    \/ \E c \in Collectors : Collect(c)
    \/ Respond

Spec == Init /\ [][Next]_vars

\* the whole life of the process
NextMain ==
    \/ Logger
    \/ RPCClient
    \/ NotifyContext
    \/ Register
    \/ Handle
    \/ Listen
    \/ GoServe
    \/ ServeStart
    \/ ServeFail
    \/ ServeClosed
    \/ InterruptKill
    \/ Interrupt
    \/ Timeout
    \/ SelectErr
    \/ SelectDone
    \/ ShutdownPoll
    \/ ShutdownCancelled
    \/ ShutdownTick
    \/ Accept
    \/ \E c \in Collectors : CollectMain(c)
    \/ Respond

SpecMain == InitMain /\ [][NextMain]_vars

\* the whole life of the process, where the main goroutine keeps running once
\* signal.NotifyContext is installed, the shutdown timer fires, and a select of
\* server.Shutdown that finds its context done again and again takes that case
Fairness ==
    /\ WF_vars(Register)
    /\ WF_vars(Handle)
    /\ WF_vars(Listen)
    /\ WF_vars(GoServe)
    /\ WF_vars(SelectDone)
    /\ WF_vars(ShutdownPoll)
    /\ WF_vars(Timeout)
    /\ SF_vars(ShutdownCancelled)

SpecLive == InitMain /\ [][NextMain]_vars /\ Fairness

\* Describe called on the collectors of a serving exporter
NextDescribe == \E c \in Describers : Describe(c)

SpecDescribe == Init /\ [][NextDescribe]_vars

\* scrapes in which one collector gets the same replies every time
NextTwice ==
    \/ AcceptTwice
    \/ \E c \in Collectors : CollectTwice(c)
    \/ RespondTwice

SpecTwice == InitTwice /\ [][NextTwice]_vars

(***************************************************************************)
(* Reading a scrape.                                                       *)
(***************************************************************************)
\* collector c has returned and every call and decode it made succeeded
Succeeded(c) ==
    /\ colState[c] = "returned"
    /\ Len(replies[c]) = (IF c = "blockchain" THEN 1 ELSE 2)
    /\ ~replies[c][1].err
    /\ c # "blockchain" => (~replies[c][2].err /\ replies[c][2].wellformed)

\* collector c has returned and a call or the decode it made failed
Failed(c) ==
    /\ colState[c] = "returned"
    /\ \/ replies[c][1].err
       \/ Len(replies[c]) = 2 /\ (replies[c][2].err \/ ~replies[c][2].wellformed)

ChainOf(c) == replies[c][1].val.Chain
DecodedOf(c) == replies[c][2].json

\* the metrics of bag ms that satisfy Keep
Only(ms, Keep(_)) == [m \in {x \in BagToSet(ms) : Keep(x)} |-> CopiesIn(m, ms)]
Count(ms, Keep(_)) == BagCardinality(Only(ms, Keep))

DescriptorsOf(c) ==
    CASE c = "blockchain" -> BlockchainDescriptors
      [] c = "mempool"    -> MempoolDescriptors
      [] c = "peers"      -> PeersDescriptors
      [] c = "index"      -> IndexDescriptors

DescriptorSet(c) == {DescriptorsOf(c)[i] : i \in 1..Len(DescriptorsOf(c))}

PeerSampleCount(p) ==
    15 + Cardinality(DOMAIN p.BytesSentPerMessage) + Cardinality(DOMAIN p.BytesRecvPerMessage)

RECURSIVE PeersSampleCount(_)
PeersSampleCount(info) ==
    IF info = <<>> THEN 0 ELSE PeerSampleCount(Head(info)) + PeersSampleCount(Tail(info))

\* the size of the full sample set of a collector for the replies it got
FullCount(c) ==
    CASE c = "blockchain" -> Len(BlockchainDescriptors)
      [] c = "mempool"    -> Len(MempoolDescriptors)
      [] c = "peers"      -> PeersSampleCount(DecodedOf(c))
      [] c = "index"      -> 2 * Cardinality(DOMAIN DecodedOf(c))

\* the full sample set of c: all of it is there, on c's descriptors and chain
FullSet(c) ==
    /\ BagCardinality(out[c]) = FullCount(c)
    /\ \A m \in BagToSet(out[c]) :
          /\ m.desc \in DescriptorSet(c)
          /\ m.labels[1] = ChainOf(c)
    /\ c \in {"blockchain", "mempool"} =>
          \A d \in DescriptorSet(c) : Count(out[c], LAMBDA m : m.desc = d) = 1

(***************************************************************************)
(* Claims.                                                                 *)
(***************************************************************************)
\* C1: partial-failure isolation.  In every scrape a collector whose own calls
\* and decode succeeded has emitted its full sample set, whatever happened to
\* the other collectors, and once a collector has returned no Collect of
\* another collector removes or alters what it sent.
C1_Isolation ==
    /\ [](\A c \in Collectors : Succeeded(c) => FullSet(c))
    /\ [][\A c \in Collectors :
            (colState[c] = "returned" /\ colState'[c] = "returned") => out'[c] = out[c]]_vars

\* C1 witness: the index collector failed and the three others emitted in full
C1_Witness ==
    /\ Failed("index")
    /\ \A c \in Collectors \ {"index"} :
          Succeeded(c) /\ FullSet(c) /\ out[c] # EmptyBag

Flag(b) == IF b THEN 1 ELSE 0

\* C2: for every successful getblockchaininfo the Blockchain collector emits
\* exactly 9 samples, each labelled with the chain of the response, the
\* initial-block-download flag 1 when initialblockdownload is true and 0
\* otherwise, and a pruned flag 1 when pruned is true and 0 otherwise.
C2_NineSamples ==
    Succeeded("blockchain") =>
        LET info == replies["blockchain"][1].val
            ms == out["blockchain"]
        IN  /\ BagCardinality(ms) = 9
            /\ \A m \in BagToSet(ms) : m.labels = <<info.Chain>>
            /\ Count(ms, LAMBDA m : /\ m.desc.name = "bitcoind_initial_block_download"
                                    /\ m.value = Flag(info.InitialBlockDownload)) = 1
            /\ Count(ms, LAMBDA m : /\ m.desc.name \in {"bitcoind_blockchain_pruned",
                                                        "bitcoind:blockchain:pruned"}
                                    /\ m.value = Flag(info.Pruned)) = 1

\* C3: for every entry of a decoded getindexinfo response the Index collector's
\* flag sample for that index is 1 when the entry is synced and 0 when it is not.
C3_SyncedFlag ==
    Succeeded("index") =>
        \A name \in DOMAIN DecodedOf("index") :
            \E m \in BagToSet(out["index"]) :
                /\ m.labels = <<ChainOf("index"), name>>
                /\ m.kind = "untyped"
                /\ m.value = Flag(DecodedOf("index")[name].Synced)

\* C4: for every index name of a decoded getindexinfo response the Index
\* collector emits exactly two samples labelled {chain, index}: one named
\* bitcoind_index_synced, Untyped, with value 0 or 1, and one named
\* bitcoind_index_best_block_height, a Counter, with the entry's best_block_height.
C4_IndexSamples ==
    Succeeded("index") =>
        \A name \in DOMAIN DecodedOf("index") :
            LET mine == Only(out["index"],
                             LAMBDA m : m.labels = <<ChainOf("index"), name>>)
            IN  /\ BagCardinality(mine) = 2
                /\ Count(mine, LAMBDA m : /\ m.desc.name = "bitcoind_index_synced"
                                          /\ m.kind = "untyped"
                                          /\ m.value \in {0, 1}) = 1
                /\ Count(mine, LAMBDA m :
                            /\ m.desc.name = "bitcoind_index_best_block_height"
                            /\ m.kind = "counter"
                            /\ m.value = DecodedOf("index")[name].BestBlockHeight) = 1

\* the number a text of lower-case hexadecimal digits denotes
HexDigit(ch) == (CHOOSE v \in 1..16 : digits[v] = ch) - 1

RECURSIVE ParseHex(_)
ParseHex(s) ==
    IF Len(s) = 0 THEN 0
    ELSE 16 * ParseHex(SubSeq(s, 1, Len(s) - 1)) + HexDigit(SubSeq(s, Len(s), Len(s)))

\* the samples of bag ms that carry the labels of peer p on chain c
SamplesOfPeer(ms, c, p) ==
    Only(ms, LAMBDA m : /\ Len(m.labels) >= 5
                        /\ SubSeq(m.labels, 1, 5) = <<c, m.labels[2], p.Addr, p.Network, p.SubVer>>
                        /\ ParseHex(m.labels[2]) = p.ID)

\* the per-message samples of ms on descriptor name, one per entry of counts
PerMessageSamples(ms, name, counts) ==
    /\ Count(ms, LAMBDA m : m.desc.name = name) = Cardinality(DOMAIN counts)
    /\ \A msg \in DOMAIN counts :
          Count(ms, LAMBDA m : /\ m.desc.name = name
                               /\ Len(m.labels) = 6
                               /\ m.labels[6] = msg
                               /\ m.value = counts[msg]) = 1

\* C5: for every decoded getpeerinfo response the Peers collector emits, for
\* each peer, exactly 15 scalar samples (one per scalar descriptor), one
\* bytes-sent-per-message sample per entry of bytessent_per_msg and one
\* bytes-received-per-message sample per entry of bytesrecv_per_msg, each with
\* msg_type the map key and value the map value; the peer_id label of all of
\* them is the peer's id in hexadecimal; and nothing else is emitted.
C5_PeerSamples ==
    Succeeded("peers") =>
        LET info == DecodedOf("peers")
            ms == out["peers"]
        IN  /\ BagCardinality(ms) = PeersSampleCount(info)
            /\ \A i \in 1..Len(info) :
                  LET mine == SamplesOfPeer(ms, ChainOf("peers"), info[i])
                  IN  /\ BagCardinality(mine) = PeerSampleCount(info[i])
                      /\ Count(mine, LAMBDA m : Len(m.labels) = 5) = 15
                      /\ \A k \in 1..15 :
                            Count(mine, LAMBDA m : m.desc = PeersDescriptors[k]) = 1
                      /\ PerMessageSamples(mine, "bitcoind_peer_bytes_sent_per_msg",
                                           info[i].BytesSentPerMessage)
                      /\ PerMessageSamples(mine, "bitcoind_peer_bytes_recv_per_msg",
                                           info[i].BytesRecvPerMessage)

\* C5 witness: two peers were reported, one of them with an id above 9 and
\* per-message counters in both directions
C5_Witness ==
    /\ Succeeded("peers")
    /\ Len(DecodedOf("peers")) = 2
    /\ \E i \in 1..2 :
          /\ DecodedOf("peers")[i].ID = 26
          /\ DOMAIN DecodedOf("peers")[i].BytesRecvPerMessage # {}
    /\ \E m \in BagToSet(out["peers"]) :
          m.labels[2] = "1a" /\ Len(m.labels) = 6 /\ m.labels[6] = "ping" /\ m.value = 32

\* label values a sample of collector c must carry
Arity(c, m) ==
    CASE c \in {"blockchain", "mempool"} -> 1
      [] c = "index" -> 2
      [] c = "peers" -> IF m.desc.name \in {"bitcoind_peer_bytes_sent_per_msg",
                                            "bitcoind_peer_bytes_recv_per_msg"}
                        THEN 6 ELSE 5

\* C6: every sample a collector emits carries as many label values as its
\* descriptor declares label names: 1 for Blockchain and Mempool, 2 for Index,
\* 5 for the scalar Peers families, 6 for the two per-message Peers families;
\* no construction fails for arity, so no sample of the full set is missing.
C6_LabelArity ==
    \A c \in Collectors :
        /\ \A m \in BagToSet(out[c]) :
              /\ m # NilMetric
              /\ Len(m.labels) = Len(m.desc.labels)
              /\ Len(m.labels) = Arity(c, m)
        /\ Succeeded(c) => BagCardinality(out[c]) = FullCount(c)

\* C6 witness: all four collectors succeeded in one scrape, with samples of
\* every arity among what they sent
C6_Witness ==
    /\ \A c \in Collectors : Succeeded(c)
    /\ \A n \in {1, 2, 5, 6} :
          \E c \in Collectors : \E m \in BagToSet(out[c]) : Len(m.labels) = n

\* C7: a collector whose RPC call or decode failed has logged the error, has
\* sent no sample in this scrape, has made no call after a failed
\* getblockchaininfo and has returned; with every collector returned the handler can respond.
C7_FailedCollector ==
    /\ \A c \in Collectors :
          Failed(c) =>
              /\ colState[c] = "returned"
              /\ out[c] = EmptyBag
              /\ Len(errLog[c]) = 1
              /\ (replies[c][1].err => Len(rpcCalls[c]) = 1)
    /\ (request = "gathering" /\ \A c \in Collectors : colState[c] = "returned")
          => ENABLED Respond

\* C7 witness: getblockchaininfo failed for the index collector, and the
\* mempool collector could not decode its reply
C7_Witness ==
    /\ Failed("index")
    /\ replies["index"][1].err
    /\ errLog["index"] = <<"RPC call getblockchaininfo failed">>
    /\ Failed("mempool")
    /\ Len(replies["mempool"]) = 2
    /\ ~replies["mempool"][2].err
    /\ errLog["mempool"] = <<"Failed to decode getmempoolinfo response">>

\* the steps of startup that can fail
StartupFailures ==
    {"logger", "rpc.connect", "rpc.ping", "register.blockchain", "register.mempool",
     "register.peers", "register.index", "listen"}

Done(step) == \E i \in 1..Len(steps) : steps[i] = step

\* C8: startup runs in the order logger, RPC connect and ping, collector
\* registration, listener bind, serve loop; a step that fails is the last step
\* executed and the process exits with code 1; the listener is bound only after
\* connect and ping succeeded, and no scrape is served before startup is complete.
C8_StartupOrder ==
    /\ Len(steps) <= Len(StartupOrder)
    /\ steps = SubSeq(StartupOrder, 1, Len(steps))
    /\ fatal \in StartupFailures =>
          /\ pc = "exited"
          /\ exitCode = <<1>>
          /\ steps[Len(steps)] = fatal
    /\ (fatal \in StartupFailures \ {"listen"} \/ ~Done("listen")) =>
          listener = "none"
    /\ fatal \in StartupFailures =>
          /\ listener = "none"
          /\ serveGo = "none"
          /\ request = "none"
          /\ response = NoResponse
    /\ (request # "none" \/ response # NoResponse) => steps = StartupOrder

\* C8 witness: the daemon answered the connect but not the ping: exit code 1
\* after three steps, no listener
C8_Witness ==
    /\ pc = "exited"
    /\ exitCode = <<1>>
    /\ fatal = "rpc.ping"
    /\ steps = <<"logger", "rpc.connect", "rpc.ping">>
    /\ listener = "none"

\* a request is accepted in this step
Accepted == request = "none" /\ request' = "gathering"

C10_ForcedExitOne ==
    (pc = "exited" /\ shutdownCtx \in {"interrupted", "expired"}) => exitCode = <<1>>

\* C10 amended: server.Shutdown fails only on a second interrupt or on expiry of
\* the shutdown timeout, and then the process exits with code 1, cutting off
\* the request in flight; the process never exits with code 0 while a request
\* is in flight; after a second interrupt or expiry it exits with code 0 only
\* if the drain found no request in flight.
C10_DrainCutShort ==
    /\ fatal = "shutdown" =>
          /\ pc = "exited"
          /\ exitCode = <<1>>
          /\ shutdownCtx \in {"interrupted", "expired"}
          /\ drain.waited
    /\ exitCode = <<0>> => request \notin {"gathering", "aborted"}
    /\ (pc = "ShutdownWait" /\ shutdownCtx \in {"interrupted", "expired"}) =>
          ENABLED ShutdownCancelled

\* C10 witness: the drain was cut short with a request in flight: exit code 1
C10_Witness ==
    /\ pc = "exited"
    /\ fatal = "shutdown"
    /\ exitCode = <<1>>
    /\ request = "aborted"
    /\ drain.waited

\* what Collect of c sends when the daemon answers r1 and r2
CollectedBy(c, r1, r2) ==
    IF c = "blockchain.legacy" THEN bcCollect(r1).out
    ELSE CollectOf(c, r1, r2).out

\* the descriptors of the samples Collect of c can emit against this daemon
Collectable(c) ==
    LET d == IF c = "blockchain.legacy" THEN "blockchain" ELSE c
    IN  UNION { {m.desc : m \in BagToSet(CollectedBy(c, r1, r2))} :
                r1 \in FirstReplies(d), r2 \in SecondReplies(d) }

\* C11: for every collector, every call of Describe returns the same
\* descriptor set, whatever the daemon answers or fails to answer, and that set
\* holds the descriptor of every sample Collect can emit.
C11_DescribeStable ==
    \A c \in Describers :
        \A i \in 1..Len(described[c]) :
            /\ described[c][i] = described[c][1]
            /\ Collectable(c) \subseteq described[c][i]

ProducedBy(c) == IF Succeeded(c) THEN out[c] ELSE EmptyBag

Produced ==
    ProducedBy("blockchain") (+) ProducedBy("mempool") (+) ProducedBy("peers")
        (+) ProducedBy("index")

\* C13: whatever combination of the collectors' calls and decodes succeeds or
\* fails, the scrape request is answered with status 200 and a body of exactly
\* the samples of the collectors that succeeded; no response has another status.
C13_AlwaysOK ==
    /\ [](response.status \in {0, 200})
    /\ [][(request = "gathering" /\ request' = "none") =>
            (response'.status = 200 /\ response'.body = Produced)]_vars

\* C13 witness: a scrape in which the mempool collector failed was answered
\* with status 200 and the samples of the blockchain collector alone
C13_Witness ==
    /\ request = "none"
    /\ response.status = 200
    /\ response.body # EmptyBag
    /\ \A m \in BagToSet(response.body) : m.desc \in DescriptorSet("blockchain")

\* C14: the process exits with code 0 only after an interrupt signal was
\* received and server.Shutdown returned without error; every other way Main
\* returns (a failed logger, connect, ping, registration or bind, an error of
\* the serve loop, a shutdown error) gives exit code 1.
C14_ExitCodes ==
    /\ pc = "exited" <=> exitCode # <<>>
    /\ exitCode \in {<<>>, <<0>>, <<1>>}
    /\ exitCode = <<0>> =>
          /\ ctxDone
          /\ shutdownCtx # "none"
          /\ fatal = ""
          /\ steps = StartupOrder
          /\ serveGo # "done"
    /\ (pc = "exited" /\ (fatal # "" \/ ~ctxDone \/ shutdownCtx = "none" \/ serveGo = "done"))
          => exitCode = <<1>>
    /\ fatal \in StartupFailures \cup {"accept", "shutdown"} => exitCode = <<1>>
    /\ pc = "exited" => (fatal = "" <=> exitCode = <<0>>)

\* C14 witness: the serve loop failed with no signal received: exit code 1
C14_Witness ==
    /\ pc = "exited"
    /\ exitCode = <<1>>
    /\ fatal = "accept"
    /\ ~ctxDone
    /\ listener = "closed"

\* C15: empty collections.  A getpeerinfo reply with no peer makes the Peers
\* collector send no sample and log no error, and a getindexinfo reply with no
\* entry makes the Index collector send no sample and log no error.
C15_EmptyCollections ==
    /\ (Succeeded("peers") /\ Len(DecodedOf("peers")) = 0) =>
          (out["peers"] = EmptyBag /\ errLog["peers"] = <<>>)
    /\ (Succeeded("index") /\ DOMAIN DecodedOf("index") = {}) =>
          (out["index"] = EmptyBag /\ errLog["index"] = <<>>)

\* C15 witness: in one scrape getpeerinfo returned no peer and getindexinfo no
\* entry; both collectors returned without samples and without error
C15_Witness ==
    /\ Succeeded("peers")
    /\ Len(DecodedOf("peers")) = 0
    /\ Succeeded("index")
    /\ DOMAIN DecodedOf("index") = {}
    /\ out["peers"] = EmptyBag /\ out["index"] = EmptyBag
    /\ errLog["peers"] = <<>> /\ errLog["index"] = <<>>

\* the call a collector makes after getblockchaininfo
SecondCall(c) ==
    CASE c = "mempool" -> "getmempoolinfo"
      [] c = "peers"   -> "getpeerinfo"
      [] c = "index"   -> "getindexinfo"

\* C16: in a scrape the Blockchain collector issues getblockchaininfo once and
\* nothing else; the Mempool, Peers and Index collectors issue
\* getblockchaininfo first and their second call only when it succeeded; no
\* collector issues a call twice, and none issues a call outside its Collect.
C16_RPCOrder ==
    \A c \in Collectors :
        IF colState[c] # "returned" THEN rpcCalls[c] = <<>>
        ELSE IF c = "blockchain" \/ replies[c][1].err
        THEN rpcCalls[c] = <<"getblockchaininfo">>
        ELSE rpcCalls[c] = <<"getblockchaininfo", SecondCall(c)>>

\* C16 witness: in one scrape getblockchaininfo failed for the mempool
\* collector, which made no second call, and succeeded for the index
\* collector, which went on to getindexinfo
C16_Witness ==
    /\ colState["mempool"] = "returned"
    /\ replies["mempool"][1].err
    /\ rpcCalls["mempool"] = <<"getblockchaininfo">>
    /\ colState["index"] = "returned"
    /\ ~replies["index"][1].err
    /\ rpcCalls["index"] = <<"getblockchaininfo", "getindexinfo">>
    /\ rpcCalls["blockchain"] = <<"getblockchaininfo">>

\* C17: all or nothing.  A collector that has returned has sent either no
\* sample at all or, with no error logged, its complete sample set for the
\* replies it got; a collector that logged an error has sent nothing.  The same
\* holds of the earlier BlockchainCollector for every getblockchaininfo reply.
C17_AllOrNothing ==
    /\ \A c \in Collectors :
          colState[c] = "returned" =>
              /\ \/ out[c] = EmptyBag /\ (Failed(c) \/ (Succeeded(c) /\ FullCount(c) = 0))
                 \/ /\ Succeeded(c)
                    /\ errLog[c] = <<>>
                    /\ FullSet(c)
              /\ errLog[c] # <<>> => out[c] = EmptyBag
    /\ \A r1 \in GetBlockChainInfoReplies(daemonChain) :
          IF r1.err
          THEN bcCollect(r1).out = EmptyBag /\ bcCollect(r1).log # <<>>
          ELSE /\ BagCardinality(bcCollect(r1).out) = Cardinality(DOMAIN descriptors)
               /\ bcCollect(r1).log = <<>>

\* C17 witness: in one scrape the index collector sent all four samples of a
\* reply with two entries and the peers collector, whose reply could not be
\* decoded, sent none
C17_Witness ==
    /\ Succeeded("index")
    /\ Cardinality(DOMAIN DecodedOf("index")) = 2
    /\ BagCardinality(out["index"]) = 4
    /\ Failed("peers")
    /\ Len(replies["peers"]) = 2
    /\ out["peers"] = EmptyBag

\* C18: whenever server.Serve has returned an accept error, the process exits
\* with code 1, however the error interleaves with an interrupt signal: an
\* error waiting on the errs channel when the signal is observed never ends
\* in exit code 0.
C18_ServeErrorExitsOne ==
    (pc = "exited" /\ serveGo \in {"sendingAccept", "done"}) => exitCode = <<1>>

\* C19: once signal.NotifyContext is installed, every interrupt signal, also
\* one delivered before the listener is bound or before the serve goroutine
\* has started, leads to the end of the process; and after the shutdown branch
\* of Serve is taken nothing is received from the errs channel: Serve returns
\* without waiting for the serve goroutine's send.
C19_Terminates ==
    /\ ctxDone ~> (pc = "exited")
    /\ [](shutdownCtx # "none" => serveGo # "done")

\* C19 witness: the process has exited after a signal while the serve
\* goroutine still waits to send http.ErrServerClosed on errs
C19_Witness ==
    /\ pc = "exited"
    /\ ctxDone
    /\ shutdownCtx # "none"
    /\ serveGo = "sendingClosed"

=============================================================================
